---- MODULE Spec2Model ----
(***************************************************************************)
(* A model of xla::Array4D<T> and xla::MatrixMul (src/array4d.h).          *)
(*                                                                         *)
(* One Array4D object ("this") is the state: its four dimension fields and *)
(* its backing vector.  Every public operation is one action.  A fatal     *)
(* CHECK_* / DCHECK_* / assert aborts the process: the action records the  *)
(* failed check in call.fail and sets status to "aborted", after which no  *)
(* action is enabled.  DCHECK_* and assert are compiled out when NDEBUG is *)
(* defined; the build is the variable ndebug, fixed by Init.               *)
(*                                                                         *)
(* The element type T is modelled as a fixed-point number: the integer v   *)
(* stands for the value v / One, where One = 2 * TolDen, so that the       *)
(* tolerance 0.000001 of operator== is two units.                          *)
(***************************************************************************)
EXTENDS Integers, Sequences, FiniteSets, TLC

VARIABLES planes_, depth_, height_, width_, values_, ndebug, status, call, given

vars == <<planes_, depth_, height_, width_, values_, ndebug, status, call, given>>

(***************************************************************************)
(* Bounds of the model.                                                    *)
(***************************************************************************)
MaxDim == 2      \* every dimension of a constructed array is in 0..MaxDim
MaxElems == 2    \* arrays of the object life cycle hold at most MaxElems elements
MaxVal == 1      \* input scalars are the whole numbers 0..MaxVal
MaxLit == 2      \* every list of a nested literal has at most MaxLit entries

(***************************************************************************)
(* The element type.                                                       *)
(***************************************************************************)
TolDen == 1000000
One == 2 * TolDen

Abs(x) == IF x < 0 THEN -x ELSE x

Sign(x) == IF x < 0 THEN -1 ELSE 1

\* a * b for two elements, rounded toward zero to the resolution 1 / One
Times(a, b) ==
  LET x == Abs(a)
      y == Abs(b)
  IN Sign(a) * Sign(b) *
       ((x \div One) * y + (x % One) * (y \div One) + ((x % One) * (y % One)) \div One)

Scalars == {k * One : k \in 0..MaxVal}

RECURSIVE SeqSum(_)
SeqSum(s) == IF s = <<>> THEN 0 ELSE Head(s) + SeqSum(Tail(s))

RECURSIVE Concat(_)
Concat(ss) == IF ss = <<>> THEN <<>> ELSE Head(ss) \o Concat(Tail(ss))

(***************************************************************************)
(* Array4D objects as values: the five private fields.                     *)
(***************************************************************************)
Array(p, d, h, w, vs) ==
  [planes_ |-> p, depth_ |-> d, height_ |-> h, width_ |-> w, values_ |-> vs]

This == Array(planes_, depth_, height_, width_, values_)

NoArray == Array(0, 0, 0, 0, <<>>)

num_elements(a) == Len(a.values_)

\* Array4D(planes, depth, height, width): values_(planes * depth * height * width)
Sized(p, d, h, w) == Array(p, d, h, w, [i \in 1..(p * d * h * w) |-> 0])

\* Array4D(planes, depth, height, width, value)
SizedFill(p, d, h, w, value) == Array(p, d, h, w, [i \in 1..(p * d * h * w) |-> value])

\* Array4D(planes, depth, height, width, const std::vector<T>&)
SizedVector(p, d, h, w, input_array) ==
  [fail |-> IF p * d * h * w = Len(input_array) THEN "none" ELSE "CHECK_EQ",
   arr  |-> Array(p, d, h, w, input_array)]

(***************************************************************************)
(* operator(): the four CHECK_LT, then the element at the linear index.    *)
(* ref is the 0-based index into values_; an index outside the vector is   *)
(* undefined behaviour ("UB").                                              *)
(***************************************************************************)
\* mutant: the stride of depth is height_ instead of height_ * width_
Offset_DepthStride(a, plane, depth, height, width) ==
  plane * (a.depth_ * a.height_ * a.width_) + depth * a.height_
    + height * a.width_ + width

Offset(a, plane, depth, height, width) ==
  plane * (a.depth_ * a.height_ * a.width_) + depth * (a.height_ * a.width_)
    + height * a.width_ + width

\* mutant: the CHECK_LT on width is missing
operator_call_NoWidthCheck(a, plane, depth, height, width) ==
  IF ~(plane < a.planes_) \/ ~(depth < a.depth_) \/ ~(height < a.height_)
  THEN [fail |-> "CHECK_LT", ref |-> -1]
  ELSE LET id == Offset(a, plane, depth, height, width)
       IN IF id >= 0 /\ id < Len(a.values_)
          THEN [fail |-> "none", ref |-> id]
          ELSE [fail |-> "UB", ref |-> id]

operator_call(a, plane, depth, height, width) ==
  IF ~(plane < a.planes_) \/ ~(depth < a.depth_)
       \/ ~(height < a.height_) \/ ~(width < a.width_)
  THEN [fail |-> "CHECK_LT", ref |-> -1]
  ELSE LET id == Offset(a, plane, depth, height, width)
       IN IF id >= 0 /\ id < Len(a.values_)
          THEN [fail |-> "none", ref |-> id]
          ELSE [fail |-> "UB", ref |-> id]

\* the element operator() refers to, for a call that succeeded
Get(a, plane, depth, height, width) ==
  a.values_[operator_call(a, plane, depth, height, width).ref + 1]

\* values_ after  (*this)(plane, depth, height, width) = v
Put(a, plane, depth, height, width, v) ==
  [a.values_ EXCEPT ![operator_call(a, plane, depth, height, width).ref + 1] = v]

(***************************************************************************)
(* SetValues / Fill / FillIota / FillWithMultiples / mul                   *)
(***************************************************************************)
\* mutant: the CHECK_EQ on the length of the container is missing
SetValues_NoCheck(a, container) == [fail |-> "none", values |-> container]

SetValues(a, container) ==
  IF Len(container) = num_elements(a)
  THEN [fail |-> "none", values |-> container]
  ELSE [fail |-> "CHECK_EQ", values |-> a.values_]

Fill(a, value) == [i \in 1..Len(a.values_) |-> value]

FillIota(a, value) == [i \in 1..Len(a.values_) |-> value + (i - 1) * One]

FillWithMultiples(a, multiplier) ==
  [i \in 1..num_elements(a) |-> (i - 1) * multiplier]

mul(a, multiplier) ==
  [i \in 1..num_elements(a) |-> Times(a.values_[i], multiplier)]

(***************************************************************************)
(* Loop nests.  LoopNest(n1, n2, n3, n4) is the sequence of the index      *)
(* tuples <<i1, i2, i3, i4>> in the order four nested for loops visit      *)
(* them, i1 being the outermost loop variable.                             *)
(***************************************************************************)
LoopNest(n1, n2, n3, n4) ==
  Concat([i1 \in 1..n1 |->
    Concat([i2 \in 1..n2 |->
      Concat([i3 \in 1..n3 |->
        [i4 \in 1..n4 |-> <<i1 - 1, i2 - 1, i3 - 1, i4 - 1>>]])])])

\* one assignment  (*this)(plane, depth, height, width) = v  inside a loop;
\* acc is [fail, values]
Assign(a, acc, plane, depth, height, width, v) ==
  LET cur == [a EXCEPT !.values_ = acc.values]
      r == operator_call(cur, plane, depth, height, width)
  IN IF acc.fail # "none" THEN acc
     ELSE IF r.fail # "none" THEN [acc EXCEPT !.fail = r.fail]
     ELSE [acc EXCEPT !.values = Put(cur, plane, depth, height, width, v)]

(***************************************************************************)
(* Each(f).  A visitor f is a record: kind "read" only looks at the        *)
(* element, "store" writes f.val through the pointer at every call,        *)
(* "storeAt" writes f.val only when called with the coordinates f.at.      *)
(* The log holds one entry <<plane, depth, height, width, ref>> per call   *)
(* of f, ref being the index of the element the pointer refers to.         *)
(***************************************************************************)
Visit(f, coords, old) ==
  CASE f.kind = "read" -> old
    [] f.kind = "store" -> f.val
    [] f.kind = "storeAt" -> IF coords = f.at THEN f.val ELSE old

RECURSIVE EachLoop(_, _, _, _)
EachLoop(a, f, todo, acc) ==
  IF todo = <<>> \/ acc.fail # "none" THEN acc
  ELSE LET c == Head(todo)
           cur == [a EXCEPT !.values_ = acc.values]
           r == operator_call(cur, c[1], c[2], c[3], c[4])
       IN IF r.fail # "none"
          THEN [acc EXCEPT !.fail = r.fail]
          ELSE EachLoop(a, f, Tail(todo),
                 [fail |-> "none",
                  values |-> [acc.values EXCEPT ![r.ref + 1] = Visit(f, c, acc.values[r.ref + 1])],
                  log |-> Append(acc.log, <<c[1], c[2], c[3], c[4], r.ref>>)])

\* mutant: the height loop is outside the depth loop
Each_HeightFirst(a, f) ==
  LET n == LoopNest(a.planes_, a.height_, a.depth_, a.width_)
  IN EachLoop(a, f, [k \in 1..Len(n) |-> <<n[k][1], n[k][3], n[k][2], n[k][4]>>],
              [fail |-> "none", values |-> a.values_, log |-> <<>>])

Each(a, f) ==
  EachLoop(a, f, LoopNest(a.planes_, a.depth_, a.height_, a.width_),
           [fail |-> "none", values |-> a.values_, log |-> <<>>])

(***************************************************************************)
(* Array2D, the source of FillWithYX and FillWithPZ: height, width and a   *)
(* row-major vector.                                                       *)
(***************************************************************************)
Array2D(h, w, vs) == [height |-> h, width |-> w, values |-> vs]

Array2DGet(m, row, col) == m.values[row * m.width + col + 1]

RECURSIVE FillLoop(_, _, _, _, _)
\* todo is a sequence of <<plane, depth, height, width>>; src(c) is the value stored
FillLoop(a, todo, acc, m, byYX) ==
  IF todo = <<>> \/ acc.fail # "none" THEN acc
  ELSE LET c == Head(todo)
           v == IF byYX THEN Array2DGet(m, c[3], c[4]) ELSE Array2DGet(m, c[1], c[2])
       IN FillLoop(a, Tail(todo), Assign(a, acc, c[1], c[2], c[3], c[4], v), m, byYX)

\* loops of FillWithPZ and FillWithMinorDimNum: height, width, plane, depth
HWPZOrder(a) ==
  LET n == LoopNest(a.height_, a.width_, a.planes_, a.depth_)
  IN [k \in 1..Len(n) |-> <<n[k][3], n[k][4], n[k][1], n[k][2]>>]

FillWithYX(a, value) ==
  IF value.height # a.height_ \/ value.width # a.width_
  THEN [fail |-> "CHECK_EQ", values |-> a.values_]
  ELSE FillLoop(a, LoopNest(a.planes_, a.depth_, a.height_, a.width_),
                [fail |-> "none", values |-> a.values_], value, TRUE)

FillWithPZ(a, value) ==
  IF value.height # a.planes_ \/ value.width # a.depth_
  THEN [fail |-> "CHECK_EQ", values |-> a.values_]
  ELSE FillLoop(a, HWPZOrder(a), [fail |-> "none", values |-> a.values_], value, FALSE)

RECURSIVE MinorDimLoop(_, _, _)
MinorDimLoop(a, todo, acc) ==
  IF todo = <<>> \/ acc.fail # "none" THEN acc
  ELSE LET c == Head(todo)
           this_val == (c[1] * a.depth_ + c[2]) * One
       IN MinorDimLoop(a, Tail(todo), Assign(a, acc, c[1], c[2], c[3], c[4], this_val))

FillWithMinorDimNum(a) ==
  MinorDimLoop(a, HWPZOrder(a), [fail |-> "none", values |-> a.values_])

(***************************************************************************)
(* TensorArray, the base class: size(i) and the capitalised accessors.     *)
(***************************************************************************)
size(a, i) ==
  CASE i = 0 -> a.planes_ [] i = 1 -> a.depth_ [] i = 2 -> a.height_ [] i = 3 -> a.width_

Batch(a) == a.planes_
Depth(a) == a.depth_
Height(a) == a.height_
Width(a) == a.width_

(***************************************************************************)
(* operator*: elementwise product when the four sizes agree; otherwise     *)
(* assert(false), which is compiled out when NDEBUG is defined.            *)
(***************************************************************************)
operator_mul(a, rhs, nd) ==
  IF size(rhs, 0) = size(a, 0) /\ size(rhs, 1) = size(a, 1)
       /\ size(rhs, 2) = size(a, 2) /\ size(rhs, 3) = size(a, 3)
  THEN [fail |-> "none",
        values |-> [i \in 1..Len(a.values_) |-> Times(a.values_[i], rhs.values_[i])]]
  ELSE [fail |-> IF nd THEN "none" ELSE "assert", values |-> a.values_]

(***************************************************************************)
(* operator==                                                              *)
(***************************************************************************)
RECURSIVE EqLoop(_, _, _, _)
EqLoop(a, rhs, i, result) ==
  IF i < Len(a.values_) /\ result
  THEN EqLoop(a, rhs, i + 1, Abs(a.values_[i + 1] - rhs.values_[i + 1]) * TolDen < One)
  ELSE result

\* mutant: only the numbers of elements are compared, not the dimensions
operator_eq_CountOnly(a, rhs) ==
  LET result == num_elements(a) = num_elements(rhs)
  IN IF result THEN EqLoop(a, rhs, 0, result) ELSE result

operator_eq(a, rhs) ==
  LET result == /\ num_elements(a) = num_elements(rhs)
                /\ a.planes_ = rhs.planes_
                /\ a.depth_ = rhs.depth_
                /\ a.height_ = rhs.height_
                /\ a.width_ = rhs.width_
  IN IF result THEN EqLoop(a, rhs, 0, result) ELSE result

(***************************************************************************)
(* MatrixMul(lhs, rhs, result).  The three arrays are distinct objects.    *)
(***************************************************************************)
RECURSIVE InnerLoop(_, _, _, _, _, _)
\* for (r = from; r < lhs.Width(); r++) result(b,d,i,j) += lhs(b,d,i,r) * rhs(b,d,r,j)
InnerLoop(lhs, rhs, result, c, r, acc) ==
  IF ~(r < Width(lhs)) \/ acc.fail # "none" THEN acc
  ELSE LET cur == [result EXCEPT !.values_ = acc.values]
           x == operator_call(lhs, c[1], c[2], c[3], r)
           y == operator_call(rhs, c[1], c[2], r, c[4])
           z == operator_call(cur, c[1], c[2], c[3], c[4])
       IN IF x.fail # "none" THEN [acc EXCEPT !.fail = x.fail]
          ELSE IF y.fail # "none" THEN [acc EXCEPT !.fail = y.fail]
          ELSE IF z.fail # "none" THEN [acc EXCEPT !.fail = z.fail]
          ELSE InnerLoop(lhs, rhs, result, c, r + 1,
                 [acc EXCEPT !.values[z.ref + 1] =
                    @ + Times(lhs.values_[x.ref + 1], rhs.values_[y.ref + 1])])

\* mutant: result(b, d, i, j) is not set to 0 before the accumulation
RECURSIVE OuterLoop_NoZero(_, _, _, _, _)
OuterLoop_NoZero(lhs, rhs, result, todo, acc) ==
  IF todo = <<>> \/ acc.fail # "none" THEN acc
  ELSE OuterLoop_NoZero(lhs, rhs, result, Tail(todo),
                        InnerLoop(lhs, rhs, result, Head(todo), 0, acc))

RECURSIVE OuterLoop(_, _, _, _, _)
OuterLoop(lhs, rhs, result, todo, acc) ==
  IF todo = <<>> \/ acc.fail # "none" THEN acc
  ELSE LET c == Head(todo)
           zeroed == Assign(result, acc, c[1], c[2], c[3], c[4], 0)
       IN OuterLoop(lhs, rhs, result, Tail(todo),
                    InnerLoop(lhs, rhs, result, c, 0, zeroed))

\* mutant: CHECK_EQ(rhs.Depth(), result.Depth()) is missing
MatrixMul_NoDepthCheck(lhs, rhs, result) ==
  IF \/ Width(lhs) # Height(rhs)
     \/ Height(lhs) # Height(result)
     \/ Width(rhs) # Width(result)
     \/ Depth(lhs) # Depth(rhs)
     \/ Batch(lhs) # Batch(rhs)
     \/ Batch(rhs) # Batch(result)
  THEN [fail |-> "CHECK_EQ", values |-> result.values_]
  ELSE OuterLoop(lhs, rhs, result,
                 LoopNest(Batch(result), Depth(result), Height(lhs), Width(rhs)),
                 [fail |-> "none", values |-> result.values_])

MatrixMul(lhs, rhs, result) ==
  IF \/ Width(lhs) # Height(rhs)
     \/ Height(lhs) # Height(result)
     \/ Width(rhs) # Width(result)
     \/ Depth(lhs) # Depth(rhs)
     \/ Depth(rhs) # Depth(result)
     \/ Batch(lhs) # Batch(rhs)
     \/ Batch(rhs) # Batch(result)
  THEN [fail |-> "CHECK_EQ", values |-> result.values_]
  ELSE OuterLoop(lhs, rhs, result,
                 LoopNest(Batch(result), Depth(result), Height(lhs), Width(rhs)),
                 [fail |-> "none", values |-> result.values_])

(***************************************************************************)
(* Array4D(nested initializer list).  A literal is modelled by its nesting *)
(* shape: a sequence (planes) of sequences (depths) of sequences (heights) *)
(* of widths; the value written at nesting position (p, d, h, w) is        *)
(* LitVal(p, d, h, w), which is never the default value 0.                 *)
(***************************************************************************)
LitVal(p, d, h, w) ==
  LET B == MaxLit + 1 IN (((p * B + d) * B + h) * B + w + 1) * One

LitSteps(lit) ==
  Concat([p \in 1..Len(lit) |->
    <<[k |-> "plane", c |-> <<p - 1, 0, 0, 0>>, n |-> Len(lit[p])]>> \o
    Concat([d \in 1..Len(lit[p]) |->
      <<[k |-> "depth", c |-> <<p - 1, d - 1, 0, 0>>, n |-> Len(lit[p][d])]>> \o
      Concat([h \in 1..Len(lit[p][d]) |->
        <<[k |-> "height", c |-> <<p - 1, d - 1, h - 1, 0>>, n |-> lit[p][d][h]]>> \o
        [w \in 1..lit[p][d][h] |->
           [k |-> "elem", c |-> <<p - 1, d - 1, h - 1, w - 1>>, n |-> 0]]])])])

RECURSIVE LitLoop(_, _, _, _)
LitLoop(a, todo, acc, nd) ==
  IF todo = <<>> \/ acc.fail # "none" THEN acc
  ELSE LET s == Head(todo)
           want == CASE s.k = "plane" -> a.depth_
                     [] s.k = "depth" -> a.height_
                     [] s.k = "height" -> a.width_
                     [] s.k = "elem" -> 0
           next == IF s.k = "elem"
                   THEN Assign(a, acc, s.c[1], s.c[2], s.c[3], s.c[4],
                               LitVal(s.c[1], s.c[2], s.c[3], s.c[4]))
                   ELSE IF ~nd /\ s.n # want
                        THEN [acc EXCEPT !.fail = "DCHECK_EQ"]
                        ELSE acc
       IN LitLoop(a, Tail(todo), next, nd)

\* defined when the first plane, its first depth and that one's first height exist
FromLiteral(lit, nd) ==
  LET a == Sized(Len(lit), Len(lit[1]), Len(lit[1][1]), lit[1][1][1])
      r == LitLoop(a, LitSteps(lit), [fail |-> "none", values |-> a.values_], nd)
  IN [fail |-> r.fail, arr |-> [a EXCEPT !.values_ = r.values]]

\* the literal of P planes, D depths, H heights and W widths in which the one
\* list named by (k, c) has n entries instead: k = "plane" the depth list of
\* plane c[1], k = "depth" the height list of c[1], c[2], k = "height" the
\* width list of c[1], c[2], c[3]; k = "none" leaves the literal rectangular
Literal(P, D, H, W, k, c, n) ==
  [p \in 1..P |->
    [d \in 1..(IF k = "plane" /\ c[1] = p THEN n ELSE D) |->
      [h \in 1..(IF k = "depth" /\ c[1] = p /\ c[2] = d THEN n ELSE H) |->
         IF k = "height" /\ c[1] = p /\ c[2] = d /\ c[3] = h THEN n ELSE W]]]

\* the literals the constructor can read the four sizes of
Literals ==
  {lit \in {Literal(x[1], x[2], x[3], x[4], k, c, n) :
              x \in (1..MaxLit) \X (1..MaxLit) \X (1..MaxLit) \X (0..MaxLit),
              k \in {"none", "plane", "depth", "height"},
              c \in (1..MaxLit) \X (1..MaxLit) \X (1..MaxLit),
              n \in 0..MaxLit} :
      Len(lit[1]) > 0 /\ Len(lit[1][1]) > 0}

LitElems(lit) ==
  SeqSum([p \in 1..Len(lit) |->
    SeqSum([d \in 1..Len(lit[p]) |-> SeqSum(lit[p][d])])])

SmallLiterals ==
  {lit \in Literals :
     /\ LitElems(lit) <= MaxElems
     /\ Len(lit) * Len(lit[1]) * Len(lit[1][1]) * lit[1][1][1] <= MaxElems}

(***************************************************************************)
(* The record of the last call.                                            *)
(***************************************************************************)
NoVisitor == [kind |-> "read", at |-> <<>>, val |-> 0]

NoCall ==
  [op |-> "none", coords |-> <<>>, val |-> 0, vec |-> <<>>, lit |-> <<>>,
   f |-> NoVisitor, m |-> Array2D(0, 0, <<>>),
   mode |-> "read", lhs |-> NoArray, rhs |-> NoArray, pre |-> NoArray,
   fail |-> "none", ref |-> -1, ret |-> 0, eq |-> FALSE, log |-> <<>>]

Shapes ==
  {s \in (0..MaxDim) \X (0..MaxDim) \X (0..MaxDim) \X (0..MaxDim) :
     s[1] * s[2] * s[3] * s[4] <= MaxElems}

Vectors == UNION {[1..n -> Scalars] : n \in 0..MaxElems}

\* the values the life cycle keeps in an array
InRange(vs) == \A i \in 1..Len(vs) : vs[i] >= 0 /\ vs[i] <= MaxVal * One

Matrices ==
  {Array2D(h, w, [i \in 1..(h * w) |-> ((i - 1) % (MaxVal + 1)) * One]) :
     h \in 0..MaxDim, w \in 0..MaxDim}

Visitors(a) ==
  {NoVisitor}
    \cup {[kind |-> "store", at |-> <<>>, val |-> v] : v \in Scalars}
    \cup {[kind |-> "storeAt", at |-> c, val |-> v] :
            c \in (0..(a.planes_ - 1)) \X (0..(a.depth_ - 1)) \X (0..(a.height_ - 1))
                    \X (0..(a.width_ - 1)),
            v \in Scalars \ {0}}

\* the shapes that differ from a's in at most one dimension
NearShapes(a) ==
  {s \in Shapes :
     Cardinality({i \in 1..4 : s[i] # <<a.planes_, a.depth_, a.height_, a.width_>>[i]}) <= 1}

Finish(op, fail) ==
  /\ call' = [NoCall EXCEPT !.op = op, !.fail = fail]
  /\ status' = IF fail = "none" THEN "ok" ELSE "aborted"

Keep == UNCHANGED <<planes_, depth_, height_, width_, ndebug, given>>

(***************************************************************************)
(* Construction: the state after each of the constructors.                 *)
(***************************************************************************)
Construct(op, fail, a) ==
  /\ planes_ = a.planes_
  /\ depth_ = a.depth_
  /\ height_ = a.height_
  /\ width_ = a.width_
  /\ values_ = a.values_
  /\ given = <<a.planes_, a.depth_, a.height_, a.width_>>
  /\ status = IF fail = "none" THEN "ok" ELSE "aborted"
  /\ call = [NoCall EXCEPT !.op = op, !.fail = fail]

InitSized ==
  \E s \in Shapes : Construct("Array4D", "none", Sized(s[1], s[2], s[3], s[4]))

InitFill ==
  \E s \in Shapes, v \in Scalars :
     Construct("Array4D(value)", "none", SizedFill(s[1], s[2], s[3], s[4], v))

InitVector ==
  \E s \in Shapes, v \in Vectors :
     LET r == SizedVector(s[1], s[2], s[3], s[4], v)
     IN Construct("Array4D(vector)", r.fail, r.arr)

\* Array4D(planes, depth, height, width, const Container&): sized, then SetValues
InitContainer ==
  \E s \in Shapes, v \in Vectors :
     LET a == Sized(s[1], s[2], s[3], s[4])
         r == SetValues(a, v)
     IN Construct("Array4D(container)", r.fail, [a EXCEPT !.values_ = r.values])

InitLiteral ==
  \E lit \in SmallLiterals :
     LET r == FromLiteral(lit, ndebug)
     IN Construct("Array4D(literal)", r.fail, r.arr)

Init ==
  /\ ndebug \in BOOLEAN
  /\ (InitSized \/ InitFill \/ InitVector \/ InitContainer \/ InitLiteral)

(***************************************************************************)
(* The life cycle: the operations on a constructed array, in any order.    *)
(***************************************************************************)
DoSetValues ==
  /\ status = "ok"
  /\ \E v \in Vectors :
       LET r == SetValues(This, v)
       IN /\ values_' = r.values
          /\ Finish("SetValues", r.fail)
  /\ Keep

DoFill ==
  /\ status = "ok"
  /\ \E v \in Scalars :
       /\ values_' = Fill(This, v)
       /\ Finish("Fill", "none")
  /\ Keep

DoFillIota ==
  /\ status = "ok"
  /\ \E v \in Scalars :
       /\ InRange(FillIota(This, v))
       /\ values_' = FillIota(This, v)
       /\ Finish("FillIota", "none")
  /\ Keep

\* the stream of the seeded generator is an arbitrary sequence of elements
DoFillRandom ==
  /\ status = "ok"
  /\ \E g \in [1..Len(values_) -> Scalars] :
       /\ values_' = [i \in 1..Len(values_) |-> g[i]]
       /\ Finish("FillRandom", "none")
  /\ Keep

DoFillWithMultiples ==
  /\ status = "ok"
  /\ \E m \in Scalars :
       /\ InRange(FillWithMultiples(This, m))
       /\ values_' = FillWithMultiples(This, m)
       /\ Finish("FillWithMultiples", "none")
  /\ Keep

DoMul ==
  /\ status = "ok"
  /\ \E m \in Scalars :
       /\ InRange(mul(This, m))
       /\ values_' = mul(This, m)
       /\ Finish("mul", "none")
  /\ Keep

DoEach ==
  /\ status = "ok"
  /\ \E f \in Visitors(This) :
       LET r == Each(This, f)
       IN /\ values_' = r.values
          /\ Finish("Each", r.fail)
  /\ Keep

DoFillWithYX ==
  /\ status = "ok"
  /\ \E m \in Matrices :
       LET r == FillWithYX(This, m)
       IN /\ values_' = r.values
          /\ Finish("FillWithYX", r.fail)
  /\ Keep

DoFillWithPZ ==
  /\ status = "ok"
  /\ \E m \in Matrices :
       LET r == FillWithPZ(This, m)
       IN /\ values_' = r.values
          /\ Finish("FillWithPZ", r.fail)
  /\ Keep

DoFillWithMinorDimNum ==
  /\ status = "ok"
  /\ LET r == FillWithMinorDimNum(This)
     IN /\ InRange(r.values)
        /\ values_' = r.values
        /\ Finish("FillWithMinorDimNum", r.fail)
  /\ Keep

DoOperatorMul ==
  /\ status = "ok"
  /\ \E s \in NearShapes(This), v \in Scalars :
       LET r == operator_mul(This, SizedFill(s[1], s[2], s[3], s[4], v), ndebug)
       IN /\ InRange(r.values)
          /\ values_' = r.values
          /\ Finish("operator*", r.fail)
  /\ Keep

\* (*this)(plane, depth, height, width) = v, each coordinate up to its dimension
DoWrite ==
  /\ status = "ok"
  /\ \E plane \in 0..planes_, depth \in 0..depth_, height \in 0..height_,
        width \in 0..width_, v \in Scalars :
       LET r == operator_call(This, plane, depth, height, width)
       IN /\ values_' = IF r.fail = "none"
                        THEN Put(This, plane, depth, height, width, v)
                        ELSE values_
          /\ Finish("operator()", r.fail)
  /\ Keep

\* flatten()[i] = v
DoFlattenWrite ==
  /\ status = "ok"
  /\ \E i \in 1..Len(values_), v \in Scalars :
       /\ values_' = [values_ EXCEPT ![i] = v]
       /\ Finish("flatten", "none")
  /\ Keep

\* MatrixMul(lhs, rhs, *this)
DoMatrixMul ==
  /\ status = "ok"
  /\ \E r \in 0..MaxDim, e \in 0..MaxDim, x \in Scalars :
       LET res == MatrixMul(SizedFill(planes_, depth_, height_, r, x),
                            SizedFill(planes_, depth_, e, width_, One), This)
       IN /\ InRange(res.values)
          /\ values_' = res.values
          /\ Finish("MatrixMul", res.fail)
  /\ Keep

Next ==
  \/ DoSetValues
  \/ DoFill
  \/ DoFillIota
  \/ DoFillRandom
  \/ DoFillWithMultiples
  \/ DoMul
  \/ DoEach
  \/ DoFillWithYX
  \/ DoFillWithPZ
  \/ DoFillWithMinorDimNum
  \/ DoOperatorMul
  \/ DoWrite
  \/ DoFlattenWrite
  \/ DoMatrixMul

Spec == Init /\ [][Next]_vars

(***************************************************************************)
(* Single calls.  The specifications below start from a constructed array  *)
(* and the arguments of one call (call.fail = "pending"), and their one    *)
(* action makes that call, recording in call the array before the call     *)
(* (pre) and everything the call returned.                                 *)
(***************************************************************************)
AllShapes == (0..MaxDim) \X (0..MaxDim) \X (0..MaxDim) \X (0..MaxDim)

\* the array of shape s holding start, start + 1, ... in storage order
Iota(s, start) ==
  LET a == Sized(s[1], s[2], s[3], s[4]) IN [a EXCEPT !.values_ = FillIota(a, start)]

Pending(op, a, c) ==
  /\ planes_ = a.planes_
  /\ depth_ = a.depth_
  /\ height_ = a.height_
  /\ width_ = a.width_
  /\ values_ = a.values_
  /\ given = <<a.planes_, a.depth_, a.height_, a.width_>>
  /\ status = "ok"
  /\ call = [c EXCEPT !.op = op, !.fail = "pending"]

Returned(c) ==
  /\ call' = [c EXCEPT !.pre = This]
  /\ status' = IF c.fail = "none" THEN "ok" ELSE "aborted"

(***************************************************************************)
(* SpecAt: one call of operator(), reading the element or assigning        *)
(* call.val to it, with every coordinate from -1 up to its dimension.      *)
(***************************************************************************)
InitAt ==
  /\ ndebug = FALSE
  /\ \E s \in AllShapes,
        m \in {"read", "write"} :
     \E c \in (-1..s[1]) \X (-1..s[2]) \X (-1..s[3]) \X (-1..s[4]) :
       Pending("operator()", Iota(s, One),
               [NoCall EXCEPT !.coords = c, !.mode = m,
                              !.val = IF m = "write" THEN 0 ELSE -1])

\* an index outside the vector is undefined behaviour: the process crashes,
\* or the reference is to memory that is not an element of values_
CallAt ==
  /\ call.op = "operator()" /\ call.fail = "pending"
  /\ LET c == call.coords
         r == operator_call(This, c[1], c[2], c[3], c[4])
     IN IF r.fail = "none"
        THEN /\ values_' = IF call.mode = "write"
                           THEN Put(This, c[1], c[2], c[3], c[4], call.val)
                           ELSE values_
             /\ Returned([call EXCEPT !.fail = "none", !.ref = r.ref,
                                      !.ret = Get(This, c[1], c[2], c[3], c[4])])
        ELSE /\ values_' = values_
             /\ \E f \in IF r.fail = "UB" THEN {"UB crash", "UB wild"} ELSE {r.fail} :
                  Returned([call EXCEPT !.fail = f])
  /\ Keep

SpecAt == InitAt /\ [][CallAt]_vars

ValidCoords(a) ==
  (0..(a.planes_ - 1)) \X (0..(a.depth_ - 1)) \X (0..(a.height_ - 1)) \X (0..(a.width_ - 1))

\* const std::vector<T>& flatten()
flatten(a) == a.values_

AtDone == call.op = "operator()" /\ call.fail # "pending"

(***************************************************************************)
(* C4.  operator() with at least one coordinate greater than or equal to   *)
(* its dimension fails its CHECK_LT (IndexOutOfRange) whatever the other   *)
(* three coordinates are, without referring to, reading or writing any     *)
(* element of the backing vector.                                          *)
(***************************************************************************)
C4_OutOfRangeFails ==
  (AtDone /\ (\/ call.coords[1] >= planes_ \/ call.coords[2] >= depth_
              \/ call.coords[3] >= height_ \/ call.coords[4] >= width_))
    => /\ call.fail = "CHECK_LT"
       /\ status = "aborted"
       /\ call.ref = -1
       /\ values_ = call.pre.values_

\* a write one past the width only, on an array that has elements, with a
\* negative plane coordinate
C4_Witness ==
  /\ AtDone /\ call.mode = "write" /\ Len(values_) > 1
  /\ call.coords[4] = width_ /\ call.coords[3] < height_ /\ call.coords[2] < depth_
  /\ call.coords[1] = -1
  /\ call.fail = "CHECK_LT"

(***************************************************************************)
(* C5.  operator() with a negative coordinate never returns a reference to *)
(* an element of the backing vector: it fails.                             *)
(***************************************************************************)
C5_NegativeFails ==
  (AtDone /\ \E i \in 1..4 : call.coords[i] < 0)
    => call.fail # "none" /\ call.ref = -1

(***************************************************************************)
(* C10.  The linear index of operator() is a bijection from the valid      *)
(* coordinate tuples onto 0..num_elements()-1; a write through operator()  *)
(* at a valid tuple changes the element at no other valid tuple, and the   *)
(* element operator() refers to is the one at that index of flatten().     *)
(***************************************************************************)
C10_Layout ==
  /\ {Offset(This, c[1], c[2], c[3], c[4]) : c \in ValidCoords(This)}
       = 0..(num_elements(This) - 1)
  /\ Cardinality(ValidCoords(This)) = num_elements(This)
  /\ (AtDone /\ call.coords \in ValidCoords(This))
       => /\ call.fail = "none"
          /\ call.ref = Offset(This, call.coords[1], call.coords[2], call.coords[3],
                               call.coords[4])
          /\ call.ret = flatten(call.pre)[call.ref + 1]
          /\ \A e \in ValidCoords(This) :
               Get(This, e[1], e[2], e[3], e[4]) =
                 IF e = call.coords /\ call.mode = "write"
                 THEN call.val
                 ELSE Get(call.pre, e[1], e[2], e[3], e[4])

\* a write at the last valid tuple of an array with three dimensions above 1
C10_Witness ==
  /\ AtDone /\ call.mode = "write" /\ call.fail = "none"
  /\ Cardinality({i \in 1..4 : given[i] > 1}) >= 3
  /\ call.coords = <<planes_ - 1, depth_ - 1, height_ - 1, width_ - 1>>
  /\ values_ # call.pre.values_

(***************************************************************************)
(* SpecEach: one call of Each(f).                                          *)
(***************************************************************************)
InitEach ==
  /\ ndebug = FALSE
  /\ \E s \in AllShapes :
       \E f \in Visitors(Iota(s, One)) :
          Pending("Each", Iota(s, One), [NoCall EXCEPT !.f = f])

CallEach ==
  /\ call.op = "Each" /\ call.fail = "pending"
  /\ LET r == Each(This, call.f)
     IN /\ values_' = r.values
        /\ Returned([call EXCEPT !.fail = r.fail, !.log = r.log])
  /\ Keep

SpecEach == InitEach /\ [][CallEach]_vars

EachDone == call.op = "Each" /\ call.fail # "pending"

(***************************************************************************)
(* C9.  Each(f) calls f exactly planes * depth * height * width times,     *)
(* once for every valid coordinate tuple and for no other; the k-th call   *)
(* (from 0) gets the tuple whose linear index is k and a pointer to the    *)
(* element at that index, so that a write through the pointer changes only *)
(* the element at the reported coordinates; with a dimension of 0, f is    *)
(* never called.                                                           *)
(***************************************************************************)
C9_EachVisitsAll ==
  EachDone =>
    /\ call.fail = "none"
    /\ Len(call.log) = planes_ * depth_ * height_ * width_
    /\ {<<e[1], e[2], e[3], e[4]>> : e \in {call.log[k] : k \in 1..Len(call.log)}}
         = ValidCoords(This)
    /\ \A k \in 1..Len(call.log) :
         /\ call.log[k][1] * (depth_ * height_ * width_) + call.log[k][2] * (height_ * width_)
              + call.log[k][3] * width_ + call.log[k][4] = k - 1
         /\ call.log[k][5] = k - 1
    /\ (\E i \in 1..4 : given[i] = 0) => call.log = <<>>
    /\ \A k \in 1..Len(values_) :
         values_[k] =
           CASE call.f.kind = "read" -> call.pre.values_[k]
             [] call.f.kind = "store" -> call.f.val
             [] call.f.kind = "storeAt" ->
                  IF <<call.log[k][1], call.log[k][2], call.log[k][3], call.log[k][4]>>
                       = call.f.at
                  THEN call.f.val
                  ELSE call.pre.values_[k]

\* a visitor that wrote one element of an array with three dimensions above 1
C9_Witness ==
  /\ EachDone /\ call.f.kind = "storeAt"
  /\ Cardinality({i \in 1..4 : given[i] > 1}) >= 3
  /\ Len(call.log) >= 8
  /\ Cardinality({k \in 1..Len(values_) : values_[k] # call.pre.values_[k]}) = 1

(***************************************************************************)
(* SpecMM: one call of MatrixMul(lhs, rhs, result), result being this      *)
(* array.  The shapes are those of a well-formed call with sizes b, d, i,  *)
(* r, j in 0..MaxDim, in which at most one of the twelve dimensions is     *)
(* replaced by another value.                                              *)
(***************************************************************************)
\* the array of shape s holding the whole numbers 1..7 in rotation
Cycle(s) ==
  LET a == Sized(s[1], s[2], s[3], s[4])
  IN [a EXCEPT !.values_ = [k \in 1..Len(a.values_) |-> (((k - 1) % 7) + 1) * One]]

MMShapes ==
  {[x EXCEPT ![k] = v] :
     x \in {<<n[1], n[2], n[3], n[4],  n[1], n[2], n[4], n[5],  n[1], n[2], n[3], n[5]>> :
              n \in (0..MaxDim) \X (0..MaxDim) \X (0..MaxDim) \X (0..MaxDim) \X (0..MaxDim)},
     k \in 1..12, v \in 0..MaxDim}

InitMM ==
  /\ ndebug = FALSE
  /\ \E x \in MMShapes, v \in {0, 3 * One} :
       Pending("MatrixMul", SizedFill(x[9], x[10], x[11], x[12], v),
               [NoCall EXCEPT !.lhs = Cycle(<<x[1], x[2], x[3], x[4]>>),
                              !.rhs = Cycle(<<x[5], x[6], x[7], x[8]>>)])

CallMatrixMul ==
  /\ call.op = "MatrixMul" /\ call.fail = "pending"
  /\ LET r == MatrixMul(call.lhs, call.rhs, This)
     IN /\ values_' = r.values
        /\ Returned([call EXCEPT !.fail = r.fail])
  /\ Keep

SpecMM == InitMM /\ [][CallMatrixMul]_vars

MMDone == call.op = "MatrixMul" /\ call.fail # "pending"

MMPrecondition ==
  /\ call.lhs.width_ = call.rhs.height_
  /\ call.lhs.height_ = height_
  /\ call.rhs.width_ = width_
  /\ call.lhs.depth_ = call.rhs.depth_ /\ call.rhs.depth_ = depth_
  /\ call.lhs.planes_ = call.rhs.planes_ /\ call.rhs.planes_ = planes_

(***************************************************************************)
(* C2.  After MatrixMul(lhs, rhs, result) on shapes that meet the          *)
(* preconditions, every result(b, d, i, j) is the sum over r in            *)
(* [0, lhs.width) of lhs(b, d, i, r) * rhs(b, d, r, j), whatever result    *)
(* held before (all 0 when lhs.width is 0).                                *)
(***************************************************************************)
C2_MatrixProduct ==
  (MMDone /\ MMPrecondition) =>
    /\ call.fail = "none"
    /\ \A c \in ValidCoords(This) :
         values_[c[1] * (depth_ * height_ * width_) + c[2] * (height_ * width_)
                   + c[3] * width_ + c[4] + 1]
           = SeqSum([r \in 1..call.lhs.width_ |->
                       Times(call.lhs.values_[c[1] * (depth_ * height_ * call.lhs.width_)
                                               + c[2] * (height_ * call.lhs.width_)
                                               + c[3] * call.lhs.width_ + r],
                             call.rhs.values_[c[1] * (depth_ * call.lhs.width_ * width_)
                                               + c[2] * (call.lhs.width_ * width_)
                                               + (r - 1) * width_ + c[4] + 1])])

\* a product of 2x2 matrices in 2x2 batches into a result that held 3
C2_Witness ==
  /\ MMDone /\ MMPrecondition
  /\ given = <<2, 2, 2, 2>> /\ call.lhs.width_ = 2
  /\ call.pre.values_[1] = 3 * One
  /\ values_[16] # values_[1]

\* the inner dimension 0: every element of a result that held 3 is 0
C2_WitnessEmpty ==
  /\ MMDone /\ MMPrecondition
  /\ call.lhs.width_ = 0 /\ Len(values_) > 0
  /\ call.pre.values_[1] = 3 * One
  /\ values_[1] = 0

(***************************************************************************)
(* C3.  MatrixMul with a violated precondition fails a CHECK_EQ            *)
(* (ShapeMismatch) and leaves result as it was before the call.            *)
(***************************************************************************)
C3_MismatchFails ==
  (MMDone /\ ~MMPrecondition) =>
    /\ call.fail = "CHECK_EQ"
    /\ status = "aborted"
    /\ This = call.pre

\* only the depth of result differs, and result has elements to write
C3_Witness ==
  /\ MMDone /\ call.fail = "CHECK_EQ"
  /\ call.lhs.width_ = call.rhs.height_ /\ call.lhs.height_ = height_
  /\ call.rhs.width_ = width_ /\ call.lhs.planes_ = planes_ /\ call.rhs.planes_ = planes_
  /\ call.lhs.depth_ = call.rhs.depth_ /\ call.rhs.depth_ # depth_
  /\ Len(values_) > 0 /\ Len(call.lhs.values_) > 0 /\ Len(call.rhs.values_) > 0
  /\ values_[1] = 3 * One

(***************************************************************************)
(* SpecLit: construction from a nested literal, in both builds.            *)
(***************************************************************************)
InitLit ==
  /\ ndebug \in BOOLEAN
  /\ \E lit \in Literals :
       Pending("Array4D(literal)", NoArray, [NoCall EXCEPT !.lit = lit])

CallLiteral ==
  /\ call.op = "Array4D(literal)" /\ call.fail = "pending"
  /\ LET r == FromLiteral(call.lit, ndebug)
     IN /\ planes_' = r.arr.planes_
        /\ depth_' = r.arr.depth_
        /\ height_' = r.arr.height_
        /\ width_' = r.arr.width_
        /\ values_' = r.arr.values_
        /\ given' = <<r.arr.planes_, r.arr.depth_, r.arr.height_, r.arr.width_>>
        /\ Returned([call EXCEPT !.fail = r.fail])
  /\ UNCHANGED ndebug

SpecLit == InitLit /\ [][CallLiteral]_vars

LitDone == call.op = "Array4D(literal)" /\ call.fail # "pending"

\* some list of the literal is not as long as its first sibling
Ragged(lit) ==
  \/ \E p \in 1..Len(lit) : Len(lit[p]) # Len(lit[1])
  \/ \E p \in 1..Len(lit) : \E d \in 1..Len(lit[p]) : Len(lit[p][d]) # Len(lit[p][1])
  \/ \E p \in 1..Len(lit) : \E d \in 1..Len(lit[p]) : \E h \in 1..Len(lit[p][d]) :
        lit[p][d][h] # lit[p][d][1]

\* all lists of a level have the length of the first list of that level
Rectangular(lit) ==
  /\ \A p \in 1..Len(lit) : Len(lit[p]) = Len(lit[1])
  /\ \A p \in 1..Len(lit) : \A d \in 1..Len(lit[p]) : Len(lit[p][d]) = Len(lit[1][1])
  /\ \A p \in 1..Len(lit) : \A d \in 1..Len(lit[p]) : \A h \in 1..Len(lit[p][d]) :
        lit[p][d][h] = lit[1][1][1]

(***************************************************************************)
(* C7.  Construction from a nested literal takes the four sizes from the   *)
(* first element of each level; it fails (RaggedShape, the DCHECK_EQ) when *)
(* a list is shorter or longer than its first sibling and never yields an  *)
(* array with unassigned or partly assigned elements; when all siblings    *)
(* agree, element (p, d, h, w) is the literal's value at that position.    *)
(***************************************************************************)
C7_LiteralConstruction ==
  LitDone =>
    /\ given = <<Len(call.lit), Len(call.lit[1]), Len(call.lit[1][1]), call.lit[1][1][1]>>
    /\ Ragged(call.lit) => call.fail # "none" /\ status = "aborted"
    /\ Rectangular(call.lit) =>
         /\ call.fail = "none"
         /\ \A c \in ValidCoords(This) :
              Get(This, c[1], c[2], c[3], c[4]) = LitVal(c[1], c[2], c[3], c[4])

(***************************************************************************)
(* SpecEq: one call of operator==.  rhs holds the elements of this array   *)
(* in storage order, one of them moved by up to three units of 1 / One.    *)
(***************************************************************************)
Nudged(a, k, e) ==
  [a EXCEPT !.values_ = [i \in 1..Len(a.values_) |-> IF i = k THEN @[i] + e ELSE @[i]]]

InitEq ==
  /\ ndebug = FALSE
  /\ \E s \in Shapes, t \in Shapes, k \in 1..MaxElems, e \in -3..3 :
       Pending("operator==", Iota(s, One), [NoCall EXCEPT !.rhs = Nudged(Iota(t, One), k, e)])

CallEq ==
  /\ call.op = "operator==" /\ call.fail = "pending"
  /\ Returned([call EXCEPT !.fail = "none", !.eq = operator_eq(This, call.rhs)])
  /\ UNCHANGED values_
  /\ Keep

SpecEq == InitEq /\ [][CallEq]_vars

EqDone == call.op = "operator==" /\ call.fail # "pending"

(***************************************************************************)
(* C8.  operator== is false when any of the four dimensions differ, even   *)
(* for the same number of elements and the same flattened contents; with   *)
(* equal dimensions it is true exactly when at every flat index the two    *)
(* elements differ by less than 0.000001.  It modifies neither array.      *)
(***************************************************************************)
C8_Equality ==
  EqDone =>
    /\ given # <<call.rhs.planes_, call.rhs.depth_, call.rhs.height_, call.rhs.width_>>
         => call.eq = FALSE
    /\ given = <<call.rhs.planes_, call.rhs.depth_, call.rhs.height_, call.rhs.width_>>
         => call.eq = (\A i \in 1..Len(values_) :
                         TolDen * (IF values_[i] >= call.rhs.values_[i]
                                   THEN values_[i] - call.rhs.values_[i]
                                   ELSE call.rhs.values_[i] - values_[i]) < One)
    /\ This = call.pre
    /\ call.fail = "none"

\* different shapes, same flattened contents: unequal
C8_Witness ==
  /\ EqDone /\ call.eq = FALSE
  /\ given = <<1, 1, 1, 2>>
  /\ <<call.rhs.planes_, call.rhs.depth_, call.rhs.height_, call.rhs.width_>> = <<1, 1, 2, 1>>
  /\ flatten(call.rhs) = flatten(This)

(***************************************************************************)
(* SpecTimes: one call of operator*, in both builds.                       *)
(***************************************************************************)
InitTimes ==
  /\ ndebug \in BOOLEAN
  /\ \E s \in Shapes, t \in Shapes :
       Pending("operator*", Iota(s, One), [NoCall EXCEPT !.rhs = Iota(t, 2 * One)])

CallTimes ==
  /\ call.op = "operator*" /\ call.fail = "pending"
  /\ LET r == operator_mul(This, call.rhs, ndebug)
     IN /\ values_' = r.values
        /\ Returned([call EXCEPT !.fail = r.fail])
  /\ Keep

SpecTimes == InitTimes /\ [][CallTimes]_vars

TimesDone == call.op = "operator*" /\ call.fail # "pending"

(***************************************************************************)
(* C6.  operator*(rhs) multiplies every element by the element of rhs at   *)
(* the same index when the four sizes agree; when a size differs it fails  *)
(* (ShapeMismatch) with the elements unchanged, and never returns normally *)
(* with the array unchanged.                                               *)
(***************************************************************************)
C6_ElementwiseMultiply ==
  TimesDone =>
    /\ given = <<call.rhs.planes_, call.rhs.depth_, call.rhs.height_, call.rhs.width_>>
         => /\ call.fail = "none"
            /\ Len(values_) = Len(call.pre.values_)
            /\ \A i \in 1..Len(values_) :
                 values_[i] = Times(call.pre.values_[i], call.rhs.values_[i])
    /\ given # <<call.rhs.planes_, call.rhs.depth_, call.rhs.height_, call.rhs.width_>>
         => /\ call.fail # "none"
            /\ status = "aborted"
            /\ values_ = call.pre.values_

====
